---- MODULE Spec2Model ----
(***************************************************************************)
(* Model of o1js-gcd: the signed limb big integer Bigint2048               *)
(* (src/src/bigint.ts), the GCD step relation and recursive program        *)
(* GcdProgram (src/src/gcd.ts) and the driver loop (src/src/run.ts).       *)
(*                                                                         *)
(* The arithmetic is modelled limb by limb over a native prime field, as   *)
(* the source computes it.  The widths are scaled down so that the whole   *)
(* value range can be enumerated: LIMB_BITS (116 in the source), LIMB_NUM  *)
(* (18), GCD_ITERATIONS_PER_PROOF (9), the native field order FieldP (the  *)
(* 254-bit Pallas prime) and the signed carry range (127 bits).  The       *)
(* scaling keeps the relations the source relies on:                       *)
(*    2*LIMB_BITS + log2(2*LIMB_NUM-1) bits fit the native field,          *)
(*    CARRY_BITS + LIMB_BITS bits fit the native field,                    *)
(*    an honest carry fits CARRY_BITS bits.                                *)
(*                                                                         *)
(* A value that an operation uses several times (a const of the source)    *)
(* is bound once by a singleton set: CHOOSE o \in {e(v) : v \in {E}} : TRUE *)
(* is e(E).                                                                *)
(***************************************************************************)
EXTENDS Integers, Sequences, FiniteSets, TLC

VARIABLES
  pc,     \* position of the driver / status of the last program call
  pair,   \* run.ts: the input pair of the driver
  proof,  \* the most recent proof (its public input and public output)
  calls,  \* number of proof calls made so far
  chain,  \* history of the chain the most recent proof closes
  a, b,   \* operands of a big integer operation
  op,     \* the operation applied to a and b
  res,    \* its result
  wit     \* prover-supplied witnesses of floorDiv

vars == <<pc, pair, proof, calls, chain, a, b, op, res, wit>>

-----------------------------------------------------------------------------
(* Configuration                                                           *)

\* bigint.ts:10  const LIMB_NUM = 18 (scaled)
LIMB_NUM == 2

\* bigint.ts:15  const LIMB_BITS = 116n (scaled)
LIMB_BITS == 2

\* gcd.ts:4  GCD_ITERATIONS_PER_PROOF = 9 (scaled)
GCD_ITERATIONS_PER_PROOF == 2

\* Inputs have a magnitude within EdgeSpan of 0 or of the largest value.
\* With the widths above this is every value of the range.
EdgeSpan == 7

\* Longest chain of proofs an arbitrary caller builds.
MaxChain == 3

\* Order of the native field (a prime; scaled from Mina's 254-bit field).
FieldP == 32749

MODULUS == 2 ^ LIMB_BITS

MASK == MODULUS - 1

\* rangeCheck128Signed: carries lie in [-2^CARRY_BITS, 2^CARRY_BITS)
CARRY_BITS == LIMB_BITS + 3

Ordering == [Less |-> 0, Equal |-> 1, Greater |-> 2]

Limbs == 0 .. (LIMB_NUM - 1)

-----------------------------------------------------------------------------
(* Native field arithmetic (o1js Field)                                    *)

FAdd(x, y) == (x + y) % FieldP

FSub(x, y) == (x - y + FieldP) % FieldP

FMul(x, y) == (x * y) % FieldP

RECURSIVE FPow(_, _)
FPow(x, n) == IF n = 0 THEN 1 ELSE FMul(x, FPow(x, n - 1))

\* x / 2^LIMB_BITS in the field: multiplication by the inverse of 2^LIMB_BITS
FDivModulus(x) == FMul(x, FPow((FieldP + 1) \div 2, LIMB_BITS))

-----------------------------------------------------------------------------
(* Native (bigint) helpers used by the witness computations                *)

AbsInt(x) == IF x < 0 THEN 0 - x ELSE x

\* JavaScript BigInt "/" truncates towards zero
TruncQuot(x, y) ==
  LET m == AbsInt(x) \div AbsInt(y)
  IN  IF (x < 0) = (y < 0) THEN m ELSE 0 - m

\* JavaScript BigInt "%" has the sign of the dividend
TruncRem(x, y) == x - y * TruncQuot(x, y)

-----------------------------------------------------------------------------
(* Bigint2048                                                              *)

\* Largest magnitude: (1 << (LIMB_BITS * LIMB_NUM)) - 1
MaxInt == 2 ^ (LIMB_BITS * LIMB_NUM) - 1

FromFits(x) == AbsInt(x) <= MaxInt

From(x) ==
  [negative |-> x < 0,
   fields   |-> [i \in Limbs |-> (AbsInt(x) \div (MODULUS ^ i)) % MODULUS]]

MAX == From(MaxInt)

ZERO == From(0)

ONE == From(1)

RECURSIVE Magnitude(_, _)
Magnitude(f, i) ==
  IF i < 0 THEN 0 ELSE f[i] * (MODULUS ^ i) + Magnitude(f, i - 1)

ToBigInt(x) ==
  LET value == Magnitude(x.fields, LIMB_NUM - 1)
  IN  IF x.negative THEN 0 - value ELSE value

Abs(x) == [negative |-> FALSE, fields |-> x.fields]

Neg(x) == [negative |-> ~x.negative, fields |-> x.fields]

IsZero(x) == \A i \in Limbs : x.fields[i] = 0

Equals(x, other) ==
  LET bothAreZero == \A i \in Limbs : x.fields[i] = 0 /\ other.fields[i] = 0
      allEqual    == /\ x.negative = other.negative
                     /\ \A i \in Limbs : x.fields[i] = other.fields[i]
  IN  bothAreZero \/ allEqual

\* The magnitude scan of cmp, from the most significant limb down
RECURSIVE CmpScan(_, _, _, _)
CmpScan(x, other, i, state) ==
  IF i < 0 THEN state
  ELSE CmpScan(x, other, i - 1,
         IF state = Ordering.Less THEN Ordering.Less
         ELSE IF state = Ordering.Greater THEN Ordering.Greater
         ELSE IF other.fields[i] > x.fields[i] THEN Ordering.Less
         ELSE IF other.fields[i] = x.fields[i] THEN Ordering.Equal
         ELSE Ordering.Greater)

\* cmp that takes the sign bit of a zero at face value
CmpSignedZero(x, other) ==
  LET state == CmpScan(x, other, LIMB_NUM - 1, Ordering.Equal)
  IN  IF x.negative /\ ~other.negative THEN Ordering.Less
      ELSE IF ~x.negative /\ other.negative THEN Ordering.Greater
      ELSE IF ~x.negative /\ ~other.negative THEN state
      ELSE IF state = Ordering.Less THEN Ordering.Greater
      ELSE IF state = Ordering.Equal THEN Ordering.Equal
      ELSE Ordering.Less

Cmp(x, other) ==
  LET state         == CmpScan(x, other, LIMB_NUM - 1, Ordering.Equal)
      thisNegative  == x.negative /\ ~IsZero(x)
      otherNegative == other.negative /\ ~IsZero(other)
  IN  IF thisNegative /\ ~otherNegative THEN Ordering.Less
      ELSE IF ~thisNegative /\ otherNegative THEN Ordering.Greater
      ELSE IF ~thisNegative /\ ~otherNegative THEN state
      ELSE IF state = Ordering.Less THEN Ordering.Greater
      ELSE IF state = Ordering.Equal THEN Ordering.Equal
      ELSE Ordering.Less

LessThan(x, other) == Cmp(x, other) = Ordering.Less

\* The magnitude-sum pass of add: limbs i.., with the carry so far
RECURSIVE AddPass(_, _, _, _, _)
AddPass(x, rhs, i, carry, acc) ==
  IF i = LIMB_NUM THEN [fields |-> acc, carry |-> carry]
  ELSE LET s  == FAdd(FAdd(x.fields[i], rhs.fields[i]), IF carry THEN 1 ELSE 0)
           c  == s > MASK
           o  == IF c THEN FSub(s, MODULUS) ELSE s
       IN  AddPass(x, rhs, i + 1, c, [acc EXCEPT ![i] = o])

\* The magnitude-difference pass of add
RECURSIVE SubPass(_, _, _, _, _)
SubPass(bigger, smaller, i, carry, acc) ==
  IF i = LIMB_NUM THEN [fields |-> acc, carry |-> carry]
  ELSE LET s  == FSub(FSub(bigger.fields[i], smaller.fields[i]),
                      IF carry THEN 1 ELSE 0)
           c  == s > MASK
           o  == IF c THEN FAdd(s, MODULUS) ELSE s
       IN  SubPass(bigger, smaller, i + 1, c, [acc EXCEPT ![i] = o])

\* add: ok is FALSE when one of the two carry.assertFalse() fails
Add(x, rhs) ==
  LET isSub          == ~(x.negative = rhs.negative)
      thisSmall      == LessThan(Abs(x), Abs(rhs))
      resultNegative == IF isSub THEN rhs.negative = thisSmall ELSE x.negative
      empty          == [i \in Limbs |-> 0]
      addP           == AddPass(x, rhs, 0, FALSE, empty)
      bigger         == IF thisSmall THEN rhs ELSE x
      smaller        == IF thisSmall THEN x ELSE rhs
      subP           == SubPass(bigger, smaller, 0, FALSE, empty)
  IN  [ok  |-> ~addP.carry /\ ~subP.carry,
       val |-> [negative |-> resultNegative,
                fields   |-> IF isSub THEN subP.fields ELSE addP.fields]]

Sub(x, y) == Add(x, Neg(y))

-----------------------------------------------------------------------------
(* multiply: x*y mod p by witnessed quotient and remainder                 *)

\* Custom range check for carries, x in [-2^CARRY_BITS, 2^CARRY_BITS)
RangeCheckSigned(xSigned) == FAdd(xSigned, 2 ^ CARRY_BITS) < 2 ^ (CARRY_BITS + 1)

RECURSIVE SumProducts(_, _, _, _)
SumProducts(X, Y, k, i) ==
  IF i = LIMB_NUM THEN 0
  ELSE FAdd(IF k - i \in Limbs THEN FMul(X[i], Y[k - i]) ELSE 0,
            SumProducts(X, Y, k, i + 1))

\* delta that adds the remainder limb instead of subtracting it
DeltaPlusR(X, Y, Q, R, P, k) ==
  LET xy == SumProducts(X, Y, k, 0)
      qp == SumProducts(Q, P, k, 0)
      d  == FSub(xy, qp)
  IN  IF k \in Limbs THEN FAdd(d, R[k]) ELSE d

\* delta[k] = (xy - qp - r)_k, a sum of native field products
Delta(X, Y, Q, R, P, k) ==
  LET xy == SumProducts(X, Y, k, 0)
      qp == SumProducts(Q, P, k, 0)
      d  == FSub(xy, qp)
  IN  IF k \in Limbs THEN FSub(d, R[k]) ELSE d

\* The carry chain showing that delta is zero; carry_i is the witness
\* deltaPlusCarry / 2^LIMB_BITS, range-checked and bound by an equality
RECURSIVE CarryChain(_, _, _, _, _, _, _)
CarryChain(X, Y, Q, R, P, i, carry) ==
  IF i = 2 * LIMB_NUM - 2
  THEN FAdd(Delta(X, Y, Q, R, P, i), carry) = 0
  ELSE LET deltaPlusCarry == FAdd(Delta(X, Y, Q, R, P, i), carry)
           c              == FDivModulus(deltaPlusCarry)
       IN  /\ RangeCheckSigned(c)
           /\ deltaPlusCarry = FMul(c, MODULUS)
           /\ CarryChain(X, Y, Q, R, P, i + 1, c)

\* The constraints of multiply on witnesses q, r (limbs range-checked)
MultiplyCheck(x, y, p, q, r) ==
  CarryChain(x.fields, y.fields, q.fields, r.fields, p.fields, 0, 0)

\* The witness computation of multiply
MultiplyWitness(x, y, p) ==
  LET xy == ToBigInt(x) * ToBigInt(y)
      p0 == ToBigInt(p)
      q  == TruncQuot(xy, p0)
      r  == xy - q * p0
  IN  [ok |-> FromFits(q) /\ FromFits(r), q |-> From(q), r |-> From(r)]

Multiply(x, y, p) ==
  LET w == MultiplyWitness(x, y, p)
  IN  [ok  |-> w.ok /\ MultiplyCheck(x, y, p, w.q, w.r),
       val |-> w.r]

ModMul(m, x, y) == Multiply(x, y, m)

\* mul with the witnesses of multiply given
MulWith(x, y, q, r) ==
  [ok  |-> MultiplyCheck(Abs(x), Abs(y), MAX, q, r),
   val |-> [negative |-> ~(x.negative = y.negative), fields |-> r.fields]]

Mul(x, y) ==
  LET w == MultiplyWitness(Abs(x), Abs(y), MAX)
  IN  IF w.ok THEN MulWith(x, y, w.q, w.r)
      ELSE [ok |-> FALSE, val |-> ZERO]

-----------------------------------------------------------------------------
(* floorDiv                                                                *)

\* The witness computation of floorDiv
FloorDivWitness(x, y) ==
  LET lhs == ToBigInt(x)
      rhs == ToBigInt(y)
      q0  == TruncQuot(lhs, rhs)
      r0  == TruncRem(lhs, rhs)
      adj == r0 # 0 /\ ((r0 < 0) # (rhs < 0))
      q   == IF adj THEN q0 - 1 ELSE q0
      r   == IF adj THEN r0 + rhs ELSE r0
  IN  [ok |-> FromFits(q) /\ FromFits(r), q |-> From(q), r |-> From(r)]

\* The assertions of floorDiv on witnesses q, r and the witnesses mq, mr of
\* the multiply inside y.mul(q)
FloorDivCheck(x, y, q, r, mq, mr) ==
  LET prod == MulWith(y, q, mq, mr)
      sum  == Add(prod.val, r)
  IN  /\ ~Equals(y, ZERO)
      /\ prod.ok
      /\ sum.ok
      /\ Equals(sum.val, x)
      /\ Cmp(Abs(r), Abs(y)) = Ordering.Less
      /\ (Equals(r, ZERO) \/ r.negative = y.negative)

\* floorDiv with its witnesses q, r computed; the witnesses of the multiply
\* inside y.mul(q) are computed here
FloorDivWith(x, y, w) ==
  CHOOSE o \in
    {[ok   |-> w.ok /\ m.ok /\ FloorDivCheck(x, y, w.q, w.r, m.q, m.r),
      quot |-> w.q,
      rem  |-> w.r] : m \in {MultiplyWitness(Abs(y), Abs(w.q), MAX)}} : TRUE

FloorDiv(x, y) ==
  IF Equals(y, ZERO) THEN [ok |-> FALSE, quot |-> ZERO, rem |-> ZERO]
  ELSE CHOOSE o \in {FloorDivWith(x, y, w) : w \in {FloorDivWitness(x, y)}} : TRUE

-----------------------------------------------------------------------------
(* GcdPair and GcdProgram                                                  *)

IsSolved(p) ==
  LET subGcd == Equals(p.g_0, p.g_1)
      divGcd == Equals(p.g_1, ZERO)
  IN  subGcd \/ divGcd

\* An iteration without the zero guard: the result of the division by the
\* dummy divisor is kept
EuclidStepUnguarded(curr) ==
  CHOOSE o \in
    {[ok  |-> fd.ok, val |-> [g_0 |-> curr.g_1, g_1 |-> fd.rem]] :
     fd \in {FloorDiv(curr.g_0,
                      IF Equals(curr.g_1, ZERO) THEN ONE ELSE curr.g_1)}} : TRUE

\* One unrolled iteration of euclidGcd; floorDiv is evaluated in any case,
\* with the dummy divisor ONE when g_1 is zero
EuclidStep(curr) ==
  CHOOSE o \in
    {[ok  |-> fd.ok,
      val |-> [g_0 |-> IF Equals(curr.g_1, ZERO) THEN curr.g_0 ELSE curr.g_1,
               g_1 |-> IF Equals(curr.g_1, ZERO) THEN curr.g_1 ELSE fd.rem]] :
     fd \in {FloorDiv(curr.g_0,
                      IF Equals(curr.g_1, ZERO) THEN ONE ELSE curr.g_1)}} : TRUE

\* The loop of euclidGcd, n iterations left; a failed assertion ends it
RECURSIVE EuclidLoop(_, _)
EuclidLoop(curr, n) ==
  IF n = 0 THEN [ok |-> TRUE, val |-> curr]
  ELSE CHOOSE o \in
         {IF s.ok THEN EuclidLoop(s.val, n - 1) ELSE [ok |-> FALSE, val |-> curr] :
          s \in {EuclidStep(curr)}} : TRUE

\* euclidGcd whose loop ends one iteration early
EuclidGcdShort(p) == EuclidLoop(p, GCD_ITERATIONS_PER_PROOF - 1)

EuclidGcd(p) == EuclidLoop(p, GCD_ITERATIONS_PER_PROOF)

AssertSolved(p) == [ok |-> IsSolved(p), g |-> p.g_0]

NoProof == [valid |-> FALSE]

\* earlierProof.verify(): only proofs the program produced verify
Verify(earlierProof) == earlierProof.valid

BaseCaseMethod(publicInput) == EuclidGcd(publicInput)

\* step that compares g_0 only with the earlier proof's public input
StepMethodG0Only(publicInput, earlierProof) ==
  IF /\ Verify(earlierProof)
     /\ Equals(publicInput.g_0, earlierProof.publicInput.g_0)
  THEN EuclidGcd(earlierProof.publicOutput)
  ELSE [ok |-> FALSE, val |-> publicInput]

StepMethod(publicInput, earlierProof) ==
  IF /\ Verify(earlierProof)
     /\ Equals(publicInput.g_0, earlierProof.publicInput.g_0)
     /\ Equals(publicInput.g_1, earlierProof.publicInput.g_1)
  THEN EuclidGcd(earlierProof.publicOutput)
  ELSE [ok |-> FALSE, val |-> publicInput]

\* The proof a successful call returns
NewProof(publicInput, publicOutput) ==
  [valid |-> TRUE, publicInput |-> publicInput, publicOutput |-> publicOutput]

-----------------------------------------------------------------------------
(* Inputs                                                                  *)

Magnitudes == {m \in 0 .. MaxInt : m <= EdgeSpan \/ m >= MaxInt - EdgeSpan}

NonNegInputs == {From(m) : m \in Magnitudes}

\* Every in-range value, both representations of zero included
SignedInputs == NonNegInputs \cup {Neg(x) : x \in NonNegInputs}

InputPairs == {[g_0 |-> x, g_1 |-> y] : x \in SignedInputs, y \in SignedInputs}

NoPair == [g_0 |-> ZERO, g_1 |-> ZERO]

NoChain == [depth |-> 0]

NoDriver == pair = NoPair /\ calls = 0

NoArith == a = ZERO /\ b = ZERO /\ op = "none" /\ res = ZERO /\ wit = ZERO

-----------------------------------------------------------------------------
(* The driver of run.ts                                                    *)

Init ==
  /\ pair \in InputPairs
  /\ pc = "start"
  /\ proof = NoProof
  /\ calls = 0
  /\ chain = NoChain
  /\ NoArith

\* let proof = await GcdProgram.baseCase(pair)
DriverBaseCase ==
  /\ pc = "start"
  /\ \E r \in {BaseCaseMethod(pair)} :
       /\ calls' = calls + 1
       /\ IF r.ok
          THEN proof' = NewProof(pair, r.val) /\ pc' = "loop"
          ELSE proof' = proof /\ pc' = "failed"
  /\ UNCHANGED <<pair, chain, a, b, op, res, wit>>

\* while (!proof.publicOutput.isSolved()) proof = await GcdProgram.step(pair, proof)
DriverStep ==
  /\ pc = "loop"
  /\ ~IsSolved(proof.publicOutput)
  /\ \E r \in {StepMethod(pair, proof)} :
       /\ calls' = calls + 1
       /\ IF r.ok
          THEN proof' = NewProof(pair, r.val) /\ pc' = "loop"
          ELSE proof' = proof /\ pc' = "failed"
  /\ UNCHANGED <<pair, chain, a, b, op, res, wit>>

\* proof.publicOutput.assertSolved().g, once the loop has ended
DriverSolution ==
  /\ pc = "loop"
  /\ IsSolved(proof.publicOutput)
  /\ \E r \in {AssertSolved(proof.publicOutput)} :
       /\ res' = r.g
       /\ pc' = IF r.ok THEN "done" ELSE "failed"
  /\ UNCHANGED <<pair, proof, calls, chain, a, b, op, wit>>

Next == DriverBaseCase \/ DriverStep \/ DriverSolution

Spec == Init /\ [][Next]_vars

-----------------------------------------------------------------------------
(* GcdProgram called by an arbitrary caller                                *)

\* Native reference of one reduction step, on integers (floor remainder)
FloorRem(x, y) ==
  LET r == TruncRem(x, y)
  IN  IF r # 0 /\ ((r < 0) # (y < 0)) THEN r + y ELSE r

RefStep(v) == IF v[2] = 0 THEN v ELSE <<v[2], FloorRem(v[1], v[2])>>

RECURSIVE RefSteps(_, _)
RefSteps(v, n) == IF n = 0 THEN v ELSE RefSteps(RefStep(v), n - 1)

PairValue(p) == <<ToBigInt(p.g_0), ToBigInt(p.g_1)>>

ProgramInit ==
  /\ pc = "idle"
  /\ proof = NoProof
  /\ chain = NoChain
  /\ NoDriver
  /\ NoArith

\* A call of baseCase on any public input: it starts a chain
CallBaseCase ==
  /\ pc = "idle"
  /\ \E p \in InputPairs : \E r \in {BaseCaseMethod(p)} :
       IF r.ok
       THEN /\ proof' = NewProof(p, r.val)
            /\ chain' = [depth |-> 1, orig |-> p, prev |-> p,
                         mismatch |-> FALSE, forged |-> FALSE]
            /\ pc' = "proved"
       ELSE /\ proof' = proof
            /\ chain' = [chain EXCEPT !.depth = 0]
            /\ pc' = "rejected"
  /\ UNCHANGED <<pair, calls, a, b, op, res, wit>>

\* The public inputs tried on a proof of public input q: q with either
\* component replaced by any value (q itself, the other representation of a
\* zero, and every mismatch in one component)
StepInputs(q) ==
  {[q EXCEPT !.g_0 = x] : x \in SignedInputs} \cup
  {[q EXCEPT !.g_1 = x] : x \in SignedInputs}

\* A call of step on a public input, with the most recent proof or with a
\* corrupted copy of it, which does not verify
CallStep ==
  /\ proof # NoProof
  /\ chain.depth > 0
  /\ chain.depth < MaxChain
  /\ \E p \in StepInputs(proof.publicInput), forged \in BOOLEAN :
     \E r \in {StepMethod(p, [proof EXCEPT !.valid = ~forged])} :
       IF r.ok
       THEN /\ proof' = NewProof(p, r.val)
            /\ chain' = [depth |-> chain.depth + 1, orig |-> chain.orig,
                         prev |-> proof.publicOutput,
                         mismatch |-> PairValue(p) # PairValue(proof.publicInput),
                         forged |-> forged]
            /\ pc' = "proved"
       ELSE /\ proof' = proof
            /\ chain' = [chain EXCEPT
                           !.mismatch = PairValue(p) # PairValue(proof.publicInput),
                           !.forged = forged]
            /\ pc' = "rejected"
  /\ UNCHANGED <<pair, calls, a, b, op, res, wit>>

ProgramNext == CallBaseCase \/ CallStep

SpecProgram == ProgramInit /\ [][ProgramNext]_vars

-----------------------------------------------------------------------------
(* The big integer operations applied to every pair of in-range operands   *)

ArithInit ==
  /\ a \in SignedInputs
  /\ b \in SignedInputs
  /\ op = "none"
  /\ res = ZERO
  /\ wit = ZERO
  /\ pc = "idle"
  /\ proof = NoProof
  /\ chain = NoChain
  /\ NoDriver

Applied(name, value) ==
  /\ op = "none"
  /\ op' = name
  /\ res' = value
  /\ UNCHANGED <<pc, pair, proof, calls, chain, a, b, wit>>

\* a.cmp(b) and a.equals(b)
OpCmp == Applied("cmp", [cmp |-> Cmp(a, b), equals |-> Equals(a, b)])

\* a.add(a.neg())
OpAddNeg == Applied("addNeg", Add(a, Neg(a)))

\* a.add(b).sub(b)
OpAddSub ==
  \E s \in {Add(a, b)} :
    Applied("addSub", IF s.ok THEN Sub(s.val, b) ELSE s)

\* a.floorDiv(b)
OpFloorDiv == Applied("floorDiv", FloorDiv(a, b))

\* Bigint2048.MAX.modMul(a, ONE) and Bigint2048.MAX.modMul(a, ZERO)
OpModMul ==
  Applied("modMul", [one |-> ModMul(MAX, a, ONE), zero |-> ModMul(MAX, a, ZERO)])

ArithNext == OpCmp \/ OpAddNeg \/ OpAddSub \/ OpFloorDiv \/ OpModMul

SpecArith == ArithInit /\ [][ArithNext]_vars

-----------------------------------------------------------------------------
(* floorDiv with witnesses chosen by the prover: any q, r with             *)
(* range-checked limbs, and any witnesses of the multiply inside y.mul(q)  *)

WitnessInit ==
  /\ a \in NonNegInputs
  /\ b \in NonNegInputs \ {ZERO}
  /\ op = "none"
  /\ res = ZERO
  /\ wit = ZERO
  /\ pc = "idle"
  /\ proof = NoProof
  /\ chain = NoChain
  /\ NoDriver

\* The prover picks q (a magnitude and a sign bit) and the witnesses of
\* multiply; the carry chain of multiply, which reads the magnitude only,
\* accepts them
ProverQuotient ==
  /\ op = "none"
  /\ \E m \in NonNegInputs, mq \in NonNegInputs, mr \in NonNegInputs :
       /\ MultiplyCheck(Abs(b), m, MAX, mq, mr)
       /\ \E q \in {m, Neg(m)} : wit' = [q |-> q, mq |-> mq, mr |-> mr]
  /\ op' = "mul"
  /\ UNCHANGED <<pc, pair, proof, calls, chain, a, b, res>>

\* The prover picks r; every assertion of floorDiv accepts q and r
ProverRemainder ==
  /\ op = "mul"
  /\ \E r \in SignedInputs :
       /\ FloorDivCheck(a, b, wit.q, r, wit.mq, wit.mr)
       /\ res' = [quot |-> wit.q, rem |-> r]
  /\ op' = "floorDiv"
  /\ UNCHANGED <<pc, pair, proof, calls, chain, a, b, wit>>

WitnessNext == ProverQuotient \/ ProverRemainder

SpecWitness == WitnessInit /\ [][WitnessNext]_vars

-----------------------------------------------------------------------------
(* Native references                                                       *)

RECURSIVE NativeGcd(_, _)
NativeGcd(x, y) == IF y = 0 THEN x ELSE NativeGcd(y, x % y)

RefSolved(v) == v[1] = v[2] \/ v[2] = 0

\* Number of single reduction steps until the pair is solved
RECURSIVE StepsToConverge(_)
StepsToConverge(v) == IF RefSolved(v) THEN 0 ELSE 1 + StepsToConverge(RefStep(v))

CeilDiv(n, k) == (n + k - 1) \div k

MaxOf(m, n) == IF m >= n THEN m ELSE n

FloorQuot(x, y) == (x - FloorRem(x, y)) \div y

RefOrdering(x, y) ==
  IF x < y THEN Ordering.Less
  ELSE IF x = y THEN Ordering.Equal ELSE Ordering.Greater

NonNegPair(p) == ToBigInt(p.g_0) >= 0 /\ ToBigInt(p.g_1) >= 0

-----------------------------------------------------------------------------
(* Claims                                                                  *)

\* C1: for every non-negative in-range pair, the driver (baseCase, then step
\* while the output is not solved) ends without a failed assertion and the
\* g_0 of the final output is the native Euclidean gcd of the pair.
C1_GcdCorrect ==
  NonNegPair(pair) =>
    /\ pc # "failed"
    /\ pc = "done" => ToBigInt(res) = NativeGcd(ToBigInt(pair.g_0), ToBigInt(pair.g_1))

\* C2: a step call whose public input differs from the public input of the
\* proof it is given (or whose proof does not verify) fails and leaves no
\* new proof; so every proof of a chain declares the pair of the chain's
\* baseCase as public input, and its public output is the reduction of the
\* previous output: GCD_ITERATIONS_PER_PROOF reference steps per proof.
C2_ChainIntegrity ==
  proof # NoProof =>
    /\ chain.mismatch => pc = "rejected"
    /\ chain.forged => pc = "rejected"
    /\ PairValue(proof.publicInput) = PairValue(chain.orig)
    /\ PairValue(proof.publicOutput) =
         RefSteps(PairValue(chain.orig), GCD_ITERATIONS_PER_PROOF * chain.depth)
    /\ PairValue(proof.publicOutput) =
         RefSteps(PairValue(chain.prev), GCD_ITERATIONS_PER_PROOF)

\* A step with a mismatching public input was rejected on a chain of two
\* proofs.
C2_Witness ==
  /\ proof # NoProof
  /\ pc = "rejected"
  /\ chain.mismatch
  /\ ~chain.forged
  /\ chain.depth = 2

\* C3: for every in-range a and non-zero b of either sign, a.floorDiv(b)
\* completes and returns the native floor quotient and remainder:
\* b*quot + rem = a, |rem| < |b|, rem = 0 or sign(rem) = sign(b).
C3_FloorDivContract ==
  (op = "floorDiv" /\ ~IsZero(b)) =>
    /\ res.ok
    /\ ToBigInt(res.quot) = FloorQuot(ToBigInt(a), ToBigInt(b))
    /\ ToBigInt(res.rem) = FloorRem(ToBigInt(a), ToBigInt(b))
    /\ ToBigInt(b) * ToBigInt(res.quot) + ToBigInt(res.rem) = ToBigInt(a)
    /\ AbsInt(ToBigInt(res.rem)) < AbsInt(ToBigInt(b))
    /\ (ToBigInt(res.rem) = 0 \/ (ToBigInt(res.rem) < 0) = (ToBigInt(b) < 0))

\* C4: for every in-range a, a.add(a.neg()) completes (no pass of add ends
\* with a carry) and is zero; for all in-range a, b, a.add(b).sub(b)
\* equals a.
C4_AdditiveInverse ==
  /\ op = "addNeg" => (res.ok /\ IsZero(res.val))
  /\ op = "addSub" => (res.ok /\ Equals(res.val, a))

\* C5 as stated: for every a in 0 .. MaxInt, MAX.modMul(a, ONE) equals a and
\* MAX.modMul(a, ZERO) is zero, a = MAX included.
C5_ModMulIdentityAtMax ==
  (op = "modMul" /\ ~a.negative) =>
    /\ res.one.ok /\ Equals(res.one.val, a)
    /\ res.zero.ok /\ IsZero(res.zero.val)

\* C5 amended: for every a in 0 .. MaxInt - 1, MAX.modMul(a, ONE) equals a;
\* for a = MAX it is zero (a mod MAX); MAX.modMul(a, ZERO) is zero for every
\* a in 0 .. MaxInt. No call fails.
C5_ModMulIdentity ==
  (op = "modMul" /\ ~a.negative) =>
    /\ res.one.ok
    /\ ToBigInt(a) < MaxInt => Equals(res.one.val, a)
    /\ ToBigInt(a) = MaxInt => IsZero(res.one.val)
    /\ res.zero.ok /\ IsZero(res.zero.val)

\* modMul was applied to the modulus itself and to ONE.
C5_Witness == op = "modMul" /\ a = MAX /\ res.one.ok /\ IsZero(res.one.val)

\* C6: a.cmp(b) is Less, Equal or Greater as the native value of a is less
\* than, equal to or greater than that of b, whatever the sign bits of
\* zeros, and a.equals(b) is true exactly when cmp is Equal.
C6_OrderingConsistent ==
  op = "cmp" =>
    /\ res.cmp = RefOrdering(ToBigInt(a), ToBigInt(b))
    /\ res.equals <=> res.cmp = Ordering.Equal

\* The two representations of zero were compared.
C6_Witness ==
  /\ op = "cmp"
  /\ IsZero(a) /\ IsZero(b) /\ a.negative /\ ~b.negative
  /\ res.cmp = Ordering.Equal

\* C7 as stated: the driver makes ceil(s / K) proof calls, s the number of
\* reduction steps the pair needs, also when s = 0.
C7_CallCountCeil ==
  (NonNegPair(pair) /\ pc = "done") =>
    calls = CeilDiv(StepsToConverge(PairValue(pair)), GCD_ITERATIONS_PER_PROOF)

\* C7 amended: the driver makes max(1, ceil(s / K)) proof calls, the last
\* of which may be one that fails: never more, and exactly that many once
\* it has ended or the output is solved.
C7_CallCount ==
  NonNegPair(pair) =>
    LET n == MaxOf(1, CeilDiv(StepsToConverge(PairValue(pair)),
                              GCD_ITERATIONS_PER_PROOF))
    IN  /\ calls <= n
        /\ (pc \in {"done", "failed"} => calls = n)
        /\ (pc = "loop" /\ IsSolved(proof.publicOutput) => calls = n)
        /\ (pc = "loop" /\ ~IsSolved(proof.publicOutput) => calls < n)

\* The driver ended after more than two proof calls.
C7_Witness == NonNegPair(pair) /\ pc = "done" /\ calls > 2

\* C8: for any in-range x, the first proof call on (x, 0) completes and
\* returns (x, 0) unchanged.
C8_ZeroGuardNoOp ==
  (pc # "start" /\ IsZero(pair.g_1)) =>
    /\ pc # "failed"
    /\ proof.valid
    /\ proof.publicOutput = pair

\* C9: every q, r that the assertions of floorDiv accept satisfy
\* y*q + r = x over the integers.
C9_WitnessSound ==
  op = "floorDiv" =>
    ToBigInt(b) * ToBigInt(res.quot) + ToBigInt(res.rem) = ToBigInt(a)

\* C10: when euclidGcd completes on a solved pair, the result is solved and
\* its g_0 has the value of the input's g_0, so assertSolved returns the
\* same g; this holds for every proof made from a solved previous output.
C10_SolvedAbsorbing ==
  (proof # NoProof /\ RefSolved(PairValue(chain.prev))) =>
    /\ IsSolved(proof.publicOutput)
    /\ AssertSolved(proof.publicOutput).ok
    /\ ToBigInt(AssertSolved(proof.publicOutput).g) = ToBigInt(chain.prev.g_0)

\* A further step was proved on an output that was already solved.
C10_Witness ==
  /\ proof # NoProof
  /\ pc = "proved"
  /\ chain.depth >= 2
  /\ RefSolved(PairValue(chain.prev))

====
